---- MODULE Spec2Model ----
(***************************************************************************)
(* Model of src/src/core/program.ts: the Program class of G3D, which       *)
(* compiles and links a shader pair, reflects the active attributes and    *)
(* uniforms into two lookup tables, and dispatches uniform()/attribute()   *)
(* calls to the WebGL context.                                             *)
(*                                                                         *)
(* Strings whose characters the code inspects (type tokens, variable       *)
(* names) are sequences: a type token is a sequence of characters, a       *)
(* variable name is a sequence whose identifiers are single elements and   *)
(* whose punctuation ("[", "0", "]", ".") is one element per character.    *)
(* JavaScript values of varying type are records [t, v].                   *)
(***************************************************************************)
EXTENDS Integers, Sequences, FiniteSets, TLC

VARIABLES
    programs,     \* the Program instances whose constructor returned, in order
    glPrograms,   \* GL context: handles of the program objects that are alive
    glShaders,    \* GL context: number of shader objects that are alive
    handleCount,  \* GL context: number of program objects ever created
    constructs,   \* number of `new Program(...)` evaluations so far
    destroyed,    \* indices of the Programs whose destructor() has been called
    calls,        \* the GL calls issued by the last operation, in order
    last          \* the last operation, its arguments and how it ended

vars == <<programs, glPrograms, glShaders, handleCount, constructs, destroyed, calls, last>>

\* Number of `new Program(...)` evaluations explored.
MaxConstructs == 2

-----------------------------------------------------------------------------
(* JavaScript values *)

Num(n) == [t |-> "number", v |-> n]
Undefined == [t |-> "undefined", v |-> 0]
NaN == [t |-> "NaN", v |-> 0]

Digits == <<"0", "1", "2", "3", "4", "5", "6", "7", "8", "9">>

\* Number(c) for c a one-character string or undefined
NumberOf(c) ==
    IF \E d \in 1..10 : Digits[d] = c
    THEN Num((CHOOSE d \in 1..10 : Digits[d] = c) - 1)
    ELSE NaN

\* String(v) for v a number or NaN, as Array.prototype.join renders it
NumStr(v) == IF v.t = "number" THEN ToString(v.v) ELSE "NaN"

\* s.indexOf(pat): 0-based index of the first occurrence, -1 when none
IndexOf(s, pat) ==
    LET hits == {i \in 1..(Len(s) - Len(pat) + 1) : SubSeq(s, i, i + Len(pat) - 1) = pat}
    IN IF hits = {} THEN -1 ELSE (CHOOSE i \in hits : \A j \in hits : i <= j) - 1

\* s.replace(pat, rep) with a string pattern: the first occurrence only
Replace(s, pat, rep) ==
    LET i == IndexOf(s, pat)
    IN IF i = -1 THEN s
       ELSE SubSeq(s, 1, i) \o rep \o SubSeq(s, i + Len(pat) + 1, Len(s))

\* s.split(sep) for a one-character separator
RECURSIVE Split(_, _)
Split(s, sep) ==
    LET i == IndexOf(s, <<sep>>)
    IN IF i = -1 THEN <<s>>
       ELSE <<SubSeq(s, 1, i)>> \o Split(SubSeq(s, i + 2, Len(s)), sep)

\* s.substr(0, n)
Substr0(s, n) == SubSeq(s, 1, IF Len(s) < n THEN Len(s) ELSE n)

\* s[i], 0-based; undefined past the end
CharAt(s, i) == IF i + 1 <= Len(s) THEN s[i + 1] ELSE "undefined"

-----------------------------------------------------------------------------
(* Type tokens *)

FLOAT == <<"F", "L", "O", "A", "T">>
INT == <<"I", "N", "T">>
BOOL == <<"B", "O", "O", "L">>
SAMPLER == <<"S", "A", "M", "P", "L", "E", "R">>
VEC == <<"V", "E", "C">>
MAT == <<"M", "A", "T">>
TWO_D == <<"2", "D">>
CUB == <<"C", "U", "B">>
CUBE == <<"C", "U", "B", "E">>

Tok(base, suffix) == base \o <<"_">> \o suffix

\* the `types` array of getVariableType
types == <<
    FLOAT, Tok(FLOAT, VEC \o <<"2">>), Tok(FLOAT, VEC \o <<"3">>), Tok(FLOAT, VEC \o <<"4">>),
    Tok(FLOAT, MAT \o <<"2">>), Tok(FLOAT, MAT \o <<"3">>), Tok(FLOAT, MAT \o <<"4">>),
    INT, Tok(INT, VEC \o <<"2">>), Tok(INT, VEC \o <<"3">>), Tok(INT, VEC \o <<"4">>),
    BOOL, Tok(BOOL, VEC \o <<"2">>), Tok(BOOL, VEC \o <<"3">>), Tok(BOOL, VEC \o <<"4">>),
    Tok(SAMPLER, TWO_D), Tok(SAMPLER, CUBE) >>

\* gl[types[i]]: the WebGL enum value of each token, in the order of `types`
glTypeValues == <<
    5126, 35664, 35665, 35666, 35674, 35675, 35676,
    5124, 35667, 35668, 35669,
    35670, 35671, 35672, 35673,
    35678, 35680 >>

\* gl[name] for a type-token name
glEnum(name) ==
    IF \E i \in 1..Len(types) : types[i] = name
    THEN Num(glTypeValues[CHOOSE i \in 1..Len(types) : types[i] = name])
    ELSE Undefined

\* gl.SAMPLER_2D and gl.SAMPLER_CUBE
SamplerValues == {glTypeValues[16], glTypeValues[17]}

\* getVariableType falling back to FLOAT instead of throwing
getVariableType_lenient(value) ==
    LET hits == {i \in 1..Len(types) : glTypeValues[i] = value}
    IN IF hits = {} THEN [ok |-> TRUE, type |-> FLOAT]
       ELSE [ok |-> TRUE, type |-> types[CHOOSE i \in hits : \A j \in hits : i <= j]]

\* getVariableType(value): the first token whose enum equals value, or a throw
getVariableType(value) ==
    LET hits == {i \in 1..Len(types) : glTypeValues[i] = value}
    IN IF hits = {} THEN [ok |-> FALSE, type |-> <<>>]
       ELSE [ok |-> TRUE, type |-> types[CHOOSE i \in hits : \A j \in hits : i <= j]]

\* parseType defaulting the missing second segment to "VEC" instead of "VEC1"
parseType_noDefaultSize(type) ==
    LET parts == Split(type, "_")
        vecType == IF Len(parts) > 1 THEN parts[2] ELSE VEC
    IN [baseType |-> parts[1],
        vecType |-> vecType,
        baseVecType |-> Substr0(vecType, 3),
        vecSize |-> NumberOf(CharAt(vecType, 3))]

\* Program.parseType
parseType(type) ==
    LET parts == Split(type, "_")
        vecType == IF Len(parts) > 1 THEN parts[2] ELSE VEC \o <<"1">>
    IN [baseType |-> parts[1],
        vecType |-> vecType,
        baseVecType |-> Substr0(vecType, 3),
        vecSize |-> NumberOf(CharAt(vecType, 3))]

-----------------------------------------------------------------------------
(* Variable names and plain-object lookup *)

Id(x) == <<x>>
Elem0 == <<"[", "0", "]">>
Elem1 == <<"[", "1", "]">>
Member(x) == <<".", x>>

\* properties every object literal `{}` inherits from Object.prototype
ObjectPrototypeKeys == {Id("constructor"), Id("toString"), Id("hasOwnProperty"), Id("valueOf")}

\* table[name] on a table created as `{}`: an own entry, an inherited
\* function (truthy, none of whose destructured fields exist), or undefined
Lookup(table, name) ==
    IF name \in DOMAIN table THEN [kind |-> "own", entry |-> table[name]]
    ELSE IF name \in ObjectPrototypeKeys THEN [kind |-> "inherited", entry |-> <<>>]
    ELSE [kind |-> "undefined", entry |-> <<>>]

-----------------------------------------------------------------------------
(* Shader pairs handed to the constructor, with what the GL context reports
   for them: compile status and log of each stage, link status and log, and
   the active attributes and uniforms in enumeration order.  The reported
   names follow the GLSL ES rules: an array `u` is reported as u[0], a member
   of a struct-array element as s[i].m. *)

\* an active variable whose type is the k-th of `types`
Var(name, k) == [name |-> name, type |-> glTypeValues[k]]

NoVars == <<>>

Source(fOk, vOk, linkOk, attrs, unifs) ==
    [fOk |-> fOk, fLog |-> "ERROR: 0:3: syntax error", vOk |-> vOk, vLog |-> "ERROR: 0:7: undeclared identifier",
     linkOk |-> linkOk, linkLog |-> "varying mismatch",
     attributes |-> attrs, uniforms |-> unifs]

DefaultAttributes ==
    << Var(Id("aPosition"), 3), Var(Id("aUV"), 2) >>

Shaders == <<
    \* 1: the default material
    Source(TRUE, TRUE, TRUE, DefaultAttributes,
           << Var(Id("uPMatrix"), 7), Var(Id("uSampler"), 16) >>),
    \* 2: one uniform of every supported type
    Source(TRUE, TRUE, TRUE, DefaultAttributes,
           [i \in 1..Len(types) |-> [name |-> Id("u" \o ToString(i)), type |-> glTypeValues[i]]]),
    \* 3: a mix of samplers between other uniforms, one of them an array
    Source(TRUE, TRUE, TRUE, DefaultAttributes,
           << Var(Id("uCube"), 17), Var(Id("uColor"), 4),
              Var(Id("uTex") \o Elem0, 16), Var(Id("uEnv"), 17) >>),
    \* 4: arrays and arrays of structs
    Source(TRUE, TRUE, TRUE, << Var(Id("aPosition"), 3) >>,
           << Var(Id("bones") \o Elem0, 7),
              Var(Id("lights") \o Elem0 \o Member("color"), 3),
              Var(Id("lights") \o Elem1 \o Member("color"), 3),
              Var(Id("lights") \o Elem0 \o Member("map"), 16),
              Var(Id("w") \o Elem1 \o Member("k") \o Elem0, 1) >>),
    \* 5: a uniform of an unsupported type (SAMPLER_3D) after a sampler
    Source(TRUE, TRUE, TRUE, DefaultAttributes,
           << Var(Id("uSampler"), 16),
              [name |-> Id("uVolume"), type |-> 35679],
              Var(Id("uColor"), 4) >>),
    \* 6: an attribute of an unsupported type (UNSIGNED_INT)
    Source(TRUE, TRUE, TRUE,
           << Var(Id("aPosition"), 3), [name |-> Id("aIndex"), type |-> 5125] >>,
           << Var(Id("uPMatrix"), 7) >>),
    \* 7, 8, 9: the fragment stage, the vertex stage, both stages do not compile
    Source(FALSE, TRUE, FALSE, NoVars, NoVars),
    Source(TRUE, FALSE, FALSE, NoVars, NoVars),
    Source(FALSE, FALSE, FALSE, NoVars, NoVars),
    \* 10: both stages compile, the link fails
    Source(TRUE, TRUE, FALSE, NoVars, NoVars) >>

-----------------------------------------------------------------------------
(* GL calls and thrown errors *)

Call(fn, args) == [fn |-> fn, args |-> args]

NoError == [name |-> "", message |-> <<>>]
Error(prefix, detail) == [name |-> "Error", message |-> <<prefix, detail>>]
TypeError == [name |-> "TypeError", message |-> <<"Cannot read properties of undefined">>]

\* loadShader throwing without reading the info log
loadShader_noLog(stage, ok, log) ==
    [ok |-> ok,
     calls |-> << Call("createShader", <<stage>>), Call("shaderSource", <<stage>>),
                  Call("compileShader", <<stage>>), Call("getShaderParameter", <<stage>>) >>,
     error |-> IF ok THEN NoError
               ELSE Error("An error occurred compiling the shaders: ", "")]

\* loadShader(type, source): the calls it issues and whether it throws
loadShader(stage, ok, log) ==
    [ok |-> ok,
     calls |-> << Call("createShader", <<stage>>), Call("shaderSource", <<stage>>),
                  Call("compileShader", <<stage>>), Call("getShaderParameter", <<stage>>) >>
               \o (IF ok THEN <<>> ELSE << Call("getShaderInfoLog", <<stage>>) >>),
     error |-> IF ok THEN NoError
               ELSE Error("An error occurred compiling the shaders: ", log)]

EmptyTable == [k \in {} |-> <<>>]

\* the table and the calls after the i-th (1-based here) active attribute,
\* whose type getVariableType resolved to vt (or threw)
recordAttribute(attribute, i, acc, vt) ==
    IF ~vt.ok
    THEN [ok |-> FALSE, table |-> acc.table,
          calls |-> acc.calls \o << Call("getActiveAttrib", <<i - 1>>) >>]
    ELSE [ok |-> TRUE,
          table |-> (attribute.name :>
                        [type |-> vt.type, info |-> attribute, position |-> i - 1])
                    @@ acc.table,
          calls |-> acc.calls \o << Call("getActiveAttrib", <<i - 1>>),
                                    Call("getAttribLocation", <<i - 1>>) >>]

\* one iteration of the loop over the active attributes
attributeStep(attribute, i, acc) ==
    recordAttribute(attribute, i, acc, getVariableType(attribute.type))

\* the loop over the active attributes from index i on; it ends at the first
\* throw.  (acc is bound to the value of acc0.)
RECURSIVE reflectAttributes(_, _, _)
reflectAttributes(active, i, acc0) ==
    CHOOSE r \in { IF ~acc.ok \/ i > Len(active) THEN acc
                   ELSE reflectAttributes(active, i + 1, attributeStep(active[i], i, acc))
                   : acc \in {acc0} } : TRUE

\* the key under which a uniform is stored
uniformKey(name) ==
    IF IndexOf(name, Elem0) # -1 THEN Replace(name, Elem0, <<>>) ELSE name

\* unit allocation with a post-increment (`this.textureCount++`)
allocateUnit_postIncrement(baseVecType, textureCount) ==
    LET sampler == baseVecType = TWO_D \/ baseVecType = CUB
    IN [unit |-> IF sampler THEN Num(textureCount) ELSE Undefined,
        textureCount |-> IF sampler THEN textureCount + 1 ELSE textureCount]

\* the unit a uniform gets and the counter after it
allocateUnit(baseVecType, textureCount) ==
    LET c1 == IF baseVecType = TWO_D THEN textureCount + 1 ELSE textureCount
        u1 == IF baseVecType = TWO_D THEN Num(c1) ELSE Undefined
        c2 == IF baseVecType = CUB THEN c1 + 1 ELSE c1
        u2 == IF baseVecType = CUB THEN Num(c2) ELSE u1
    IN [unit |-> u2, textureCount |-> c2]

\* `uniforms[name] = res` for the i-th active uniform, of the given type and
\* with the unit allocation alloc
storeUniform(h, uniform, i, acc, type, alloc) ==
    [ok |-> TRUE,
     table |-> (uniformKey(uniform.name) :>
                   [type |-> type, info |-> uniform,
                    position |-> [program |-> h, index |-> i - 1],
                    unit |-> alloc.unit])
               @@ acc.table,
     textureCount |-> alloc.textureCount,
     calls |-> acc.calls \o << Call("getActiveUniform", <<i - 1>>),
                               Call("getUniformLocation", <<i - 1>>) >>]

\* the state after the i-th active uniform, whose type getVariableType
\* resolved to vt (or threw)
recordUniform(h, uniform, i, acc, vt) ==
    IF ~vt.ok
    THEN [ok |-> FALSE, table |-> acc.table, textureCount |-> acc.textureCount,
          calls |-> acc.calls \o << Call("getActiveUniform", <<i - 1>>) >>]
    ELSE storeUniform(h, uniform, i, acc, vt.type,
                      allocateUnit(parseType(vt.type).baseVecType, acc.textureCount))

\* one iteration of the loop over the active uniforms of program object h
uniformStep(h, uniform, i, acc) ==
    recordUniform(h, uniform, i, acc, getVariableType(uniform.type))

\* the loop over the active uniforms from index i on; it ends at the first
\* throw.  (acc is bound to the value of acc0.)
RECURSIVE reflectUniforms(_, _, _, _)
reflectUniforms(h, active, i, acc0) ==
    CHOOSE r \in { IF ~acc.ok \/ i > Len(active) THEN acc
                   ELSE reflectUniforms(h, active, i + 1, uniformStep(h, active[i], i, acc))
                   : acc \in {acc0} } : TRUE

\* the calls of lines 144-149
linkCalls(h) ==
    << Call("createProgram", <<h>>), Call("attachShader", <<"VERTEX_SHADER">>),
       Call("attachShader", <<"FRAGMENT_SHADER">>), Call("linkProgram", <<h>>),
       Call("getProgramParameter", <<"LINK_STATUS">>) >>

\* an initProgram that threw
Aborted(s, error, stage, shaders, created, cs) ==
    [threw |-> TRUE, error |-> error, stage |-> stage, shaders |-> shaders,
     created |-> created, calls |-> cs,
     program |-> [source |-> s, glProgram |-> 0, uniforms |-> EmptyTable,
                  attributes |-> EmptyTable, textureCount |-> 0]]

\* the outcome of initProgram from the outcomes of its steps, in their order:
\* fragment stage, vertex stage, link, attributes, uniforms, assignments
outcome(s, h, src, fShader, vShader, attrs, unifs) ==
    IF ~fShader.ok
    THEN Aborted(s, fShader.error, "compile", 1, FALSE, fShader.calls)
    ELSE IF ~vShader.ok
    THEN Aborted(s, vShader.error, "compile", 2, FALSE, fShader.calls \o vShader.calls)
    ELSE IF ~src.linkOk
    THEN Aborted(s, Error("Unable to initialize the shader program: ", src.linkLog),
                 "link", 2, TRUE,
                 fShader.calls \o vShader.calls \o linkCalls(h)
                 \o << Call("getProgramInfoLog", <<h>>) >>)
    ELSE IF ~attrs.ok
    THEN Aborted(s, Error("get type failed ' + value", ""), "reflect", 2, TRUE,
                 fShader.calls \o vShader.calls \o linkCalls(h) \o attrs.calls)
    ELSE IF ~unifs.ok
    THEN Aborted(s, Error("get type failed ' + value", ""), "reflect", 2, TRUE,
                 fShader.calls \o vShader.calls \o linkCalls(h) \o attrs.calls
                 \o unifs.calls)
    ELSE [threw |-> FALSE, error |-> NoError, stage |-> "done",
          shaders |-> 2, created |-> TRUE,
          calls |-> fShader.calls \o vShader.calls \o linkCalls(h) \o attrs.calls
                    \o unifs.calls,
          program |-> [source |-> s, glProgram |-> h, uniforms |-> unifs.table,
                       attributes |-> attrs.table,
                       textureCount |-> unifs.textureCount]]

\* Program.initProgram on a fresh instance (textureCount = 0) whose sources
\* are the pair src (the s-th of Shaders), in a context whose next program
\* handle is h
initProgramOf(s, h, src) ==
    outcome(s, h, src,
            loadShader("FRAGMENT_SHADER", src.fOk, src.fLog),
            loadShader("VERTEX_SHADER", src.vOk, src.vLog),
            reflectAttributes(src.attributes, 1,
                [ok |-> TRUE, table |-> EmptyTable,
                 calls |-> << Call("getProgramParameter", <<"ACTIVE_ATTRIBUTES">>) >>]),
            reflectUniforms(h, src.uniforms, 1,
                [ok |-> TRUE, table |-> EmptyTable, textureCount |-> 0,
                 calls |-> << Call("getProgramParameter", <<"ACTIVE_UNIFORMS">>) >>]))

\* the constructor: stores the sources and calls initProgram
initProgram(s, h) == initProgramOf(s, h, Shaders[s])

-----------------------------------------------------------------------------
(* Per-frame dispatch *)

Texture(id) == [t |-> "WebGLTexture", v |-> id]
Buffer(id) == [t |-> "Float32Array", v |-> id]

\* the upload methods a WebGL context has
glUniformMethods ==
    {"uniform" \o ToString(n) \o k \o "v" : n \in 1..4, k \in {"f", "i"}}
    \cup {"uniformMatrix" \o ToString(n) \o "fv" : n \in 2..4}

\* gl[`TEXTURE${unit}`]: TEXTURE0 .. TEXTURE31 exist
TEXTURE0 == 33984
glTexture(unit) ==
    IF unit.t = "number" /\ unit.v \in 0..31 THEN Num(TEXTURE0 + unit.v) ELSE Undefined

NoDescriptor ==
    [baseType |-> <<>>, vecType |-> <<>>, baseVecType |-> <<>>, vecSize |-> Undefined]

Returned(cs, d) == [threw |-> FALSE, error |-> NoError, calls |-> cs, parsed |-> d]
Thrown(e, d) == [threw |-> TRUE, error |-> e, calls |-> <<>>, parsed |-> d]

\* gl[uniformMethodName](...args): a TypeError when the context has no such method
invoke(method, args, d) ==
    IF method \in glUniformMethods THEN Returned(<< Call(method, args) >>, d)
    ELSE Thrown(TypeError, d)

\* case "VEC" choosing the int variant for INT only
vectorUpload_boolAsFloat(d, position, value) ==
    invoke("uniform" \o NumStr(d.vecSize) \o (IF d.baseType = INT THEN "i" ELSE "f") \o "v",
           <<position, value>>, d)

\* case "VEC" of Program.uniform
vectorUpload(d, position, value) ==
    invoke("uniform" \o NumStr(d.vecSize) \o (IF d.baseType = FLOAT THEN "f" ELSE "i") \o "v",
           <<position, value>>, d)

\* case "MAT" of Program.uniform
matrixUpload(d, position, value) ==
    invoke("uniformMatrix" \o NumStr(d.vecSize) \o "fv", <<position, FALSE, value>>, d)

\* sampler cases uploading the texture handle instead of the unit
samplerUpload_handle(target, d, position, unit, value) ==
    Returned(<< Call("activeTexture", <<glTexture(unit)>>),
                Call("bindTexture", <<target, value>>),
                Call("uniform1i", <<position, value>>) >>, d)

\* cases "2D" and "CUB" of Program.uniform
samplerUpload(target, d, position, unit, value) ==
    Returned(<< Call("activeTexture", <<glTexture(unit)>>),
                Call("bindTexture", <<target, value>>),
                Call("uniform1i", <<position, unit>>) >>, d)

\* the switch of Program.uniform on binding b, whose type parsed to d
upload(b, d, value) ==
    IF d.baseVecType = VEC THEN vectorUpload(d, b.position, value)
    ELSE IF d.baseVecType = MAT THEN matrixUpload(d, b.position, value)
    ELSE IF d.baseVecType = TWO_D
         THEN samplerUpload("TEXTURE_2D", d, b.position, b.unit, value)
    ELSE IF d.baseVecType = CUB
         THEN samplerUpload("TEXTURE_CUBE_MAP", d, b.position, b.unit, value)
    ELSE Thrown(Error("baseVecType invalid ", d.baseVecType), d)

\* the body of Program.uniform after the lookup: nothing when the lookup is
\* falsy; a TypeError from parseType(undefined) when it is an inherited property
dispatchUniform(found, value) ==
    IF found.kind = "undefined" THEN Returned(<<>>, NoDescriptor)
    ELSE IF found.kind = "inherited" THEN Thrown(TypeError, NoDescriptor)
    ELSE upload(found.entry, parseType(found.entry.type), value)

\* Program.uniform(name, value) on instance p
uniform(p, name, value) == dispatchUniform(Lookup(p.uniforms, name), value)

\* the three calls of Program.attribute on binding b, whose type parsed to d
bindAttribute(b, d, buffer, stride, offset) ==
    Returned(<< Call("bindBuffer", <<"ARRAY_BUFFER", buffer>>),
                Call("vertexAttribPointer",
                     <<b.position, d.vecSize, glEnum(d.baseType), FALSE, stride, offset>>),
                Call("enableVertexAttribArray", <<b.position>>) >>, d)

\* the body of Program.attribute after the lookup
dispatchAttribute(found, buffer, stride, offset) ==
    IF found.kind = "undefined" THEN Returned(<<>>, NoDescriptor)
    ELSE IF found.kind = "inherited" THEN Thrown(TypeError, NoDescriptor)
    ELSE bindAttribute(found.entry, parseType(found.entry.type), buffer, stride, offset)

\* Program.attribute(name, buffer, stride, offset) on instance p
attribute(p, name, buffer, stride, offset) ==
    dispatchAttribute(Lookup(p.attributes, name), buffer, stride, offset)

\* a dispatch that resets the texture-unit counter of the instance
afterDispatch_resetCounter(p) == [p EXCEPT !.textureCount = 0]

\* the fields of an instance after uniform() or attribute(): neither method
\* assigns to `this`
afterDispatch(p) == p

-----------------------------------------------------------------------------
(* Inputs *)

Buffers == {[t |-> "WebGLBuffer", v |-> 1]}
Strides == {20}
Offsets == {12}

\* names no shader above declares, and names a plain object inherits
OtherUniformNames == {Id("missing"), Id("constructor")}
OtherAttributeNames == {Id("missing"), Id("toString")}

ReportedNames(table) == {table[k].info.name : k \in DOMAIN table}

UniformNames(p) == DOMAIN p.uniforms \cup ReportedNames(p.uniforms) \cup OtherUniformNames
AttributeNames(p) == DOMAIN p.attributes \cup OtherAttributeNames

\* the values a caller passes: a texture for a sampler uniform, a numeric
\* buffer otherwise
Values(p, name) ==
    IF name \in DOMAIN p.uniforms /\ p.uniforms[name].info.type \in SamplerValues
    THEN {Texture(1)}
    ELSE {Buffer(1)}

-----------------------------------------------------------------------------
(* The state machine *)

Op(op, self, shader, name, value, r, stage) ==
    [op |-> op, self |-> self, shader |-> shader, name |-> name, value |-> value,
     threw |-> r.threw, error |-> r.error, parsed |-> r.parsed, stage |-> stage]

Init ==
    /\ programs = <<>>
    /\ glPrograms = {}
    /\ glShaders = 0
    /\ handleCount = 0
    /\ constructs = 0
    /\ destroyed = {}
    /\ calls = <<>>
    /\ last = Op("none", 0, 0, <<>>, Undefined, Returned(<<>>, NoDescriptor), "")

\* new Program({ fShaderSource, vShaderSource }) with shader pair s
Construct(s) ==
    /\ constructs < MaxConstructs
    /\ \E r \in {initProgram(s, handleCount + 1)} :
          /\ programs' = IF r.threw THEN programs ELSE Append(programs, r.program)
          /\ glPrograms' = IF r.created THEN glPrograms \cup {handleCount + 1}
                           ELSE glPrograms
          /\ handleCount' = IF r.created THEN handleCount + 1 ELSE handleCount
          /\ glShaders' = glShaders + r.shaders
          /\ calls' = r.calls
          /\ last' = Op("construct", 0, s, <<>>, Undefined,
                        [threw |-> r.threw, error |-> r.error, parsed |-> NoDescriptor],
                        r.stage)
    /\ constructs' = constructs + 1
    /\ UNCHANGED destroyed

\* programs[i].uniform(name, value)
Uniform(i, name, value) ==
    /\ \E r \in {uniform(programs[i], name, value)} :
          /\ calls' = r.calls
          /\ last' = Op("uniform", i, 0, name, value, r, "")
    /\ programs' = [programs EXCEPT ![i] = afterDispatch(programs[i])]
    /\ UNCHANGED <<glPrograms, glShaders, handleCount, constructs, destroyed>>

\* programs[i].attribute(name, buffer, stride, offset)
Attribute(i, name, buffer, stride, offset) ==
    /\ \E r \in {attribute(programs[i], name, buffer, stride, offset)} :
          /\ calls' = r.calls
          /\ last' = Op("attribute", i, 0, name, buffer, r, "")
    /\ programs' = [programs EXCEPT ![i] = afterDispatch(programs[i])]
    /\ UNCHANGED <<glPrograms, glShaders, handleCount, constructs, destroyed>>

\* programs[i].destructor()
Destructor(i) ==
    /\ glPrograms' = glPrograms \ {programs[i].glProgram}
    /\ destroyed' = destroyed \cup {i}
    /\ calls' = << Call("deleteProgram", <<programs[i].glProgram>>) >>
    /\ last' = Op("destructor", i, 0, <<>>, Undefined, Returned(<<>>, NoDescriptor), "")
    /\ UNCHANGED <<programs, glShaders, handleCount, constructs>>

\* the instances a caller still dispatches on: none whose destructor() ran
Usable == (1..Len(programs)) \ destroyed

Next ==
    \/ \E s \in 1..Len(Shaders) : Construct(s)
    \/ \E i \in Usable : \E name \in UniformNames(programs[i]) :
          \E value \in Values(programs[i], name) : Uniform(i, name, value)
    \/ \E i \in Usable : \E name \in AttributeNames(programs[i]) :
          \E buffer \in Buffers : \E stride \in Strides : \E offset \in Offsets :
             Attribute(i, name, buffer, stride, offset)
    \/ \E i \in 1..Len(programs) : Destructor(i)

Spec == Init /\ [][Next]_vars

TypeOK ==
    /\ constructs \in 0..MaxConstructs
    /\ Len(programs) <= constructs
    /\ glPrograms \subseteq 1..handleCount
    /\ destroyed \subseteq 1..Len(programs)

-----------------------------------------------------------------------------
(* Properties *)

TypeIndex(tok) == CHOOSE i \in 1..Len(types) : types[i] = tok

\* the active uniforms the GL enumerated for instance p, and the sampler ones
Active(p) == Shaders[p.source].uniforms
SamplerIndices(p) == {j \in 1..Len(Active(p)) : Active(p)[j].type \in SamplerValues}

\* the bindings of instance p built from the j-th enumerated uniform
BindingsOf(p, j) ==
    {p.uniforms[k] : k \in {x \in DOMAIN p.uniforms : p.uniforms[x].position.index = j - 1}}

UniformHit ==
    /\ last.op = "uniform"
    /\ last.name \in DOMAIN programs[last.self].uniforms

AttributeHit ==
    /\ last.op = "attribute"
    /\ last.name \in DOMAIN programs[last.self].attributes

LastUniform == programs[last.self].uniforms[last.name]
LastAttribute == programs[last.self].attributes[last.name]

\* C1: in every Program, the j-th enumerated uniform has the unit "number of
\* sampler uniforms among the first j" when it is a sampler and no unit
\* otherwise, so the N samplers hold exactly 1..N in enumeration order; this
\* holds of each Program whatever the Programs built before it allocated.
C1_SamplerUnits ==
    \A i \in 1..Len(programs) :
        LET p == programs[i]
            samplers == SamplerIndices(p)
        IN /\ \A j \in 1..Len(Active(p)) :
                 /\ BindingsOf(p, j) # {}
                 /\ \A b \in BindingsOf(p, j) :
                       b.unit = IF j \in samplers
                                THEN Num(Cardinality({k \in samplers : k <= j}))
                                ELSE Undefined
           /\ {b.unit.v : b \in UNION {BindingsOf(p, j) : j \in samplers}}
                 = 1..Cardinality(samplers)
           /\ p.textureCount = Cardinality(samplers)

\* two Programs alive together, the first with three samplers (cube, 2D,
\* cube), the second numbering its only sampler 1
C1_Witness ==
    /\ Len(programs) = 2
    /\ programs[1].source = 3
    /\ programs[1].textureCount = 3
    /\ programs[1].uniforms[Id("uEnv")].unit = Num(3)
    /\ programs[2].source = 1
    /\ programs[2].uniforms[Id("uSampler")].unit = Num(1)

\* C2: uniform(name, ...) and attribute(name, ...) with a name that
\* reflection did not record return normally and issue no GL call.
C2_MissIsNoOp ==
    /\ (last.op = "uniform" /\ last.name \notin DOMAIN programs[last.self].uniforms)
          => (~last.threw /\ calls = <<>>)
    /\ (last.op = "attribute" /\ last.name \notin DOMAIN programs[last.self].attributes)
          => (~last.threw /\ calls = <<>>)

\* the reported name without a trailing [0]
StripTrailingElem0(name) ==
    IF Len(name) >= 3 /\ SubSeq(name, Len(name) - 2, Len(name)) = Elem0
    THEN SubSeq(name, 1, Len(name) - 3)
    ELSE name

\* C3: every uniform binding is stored under its reported name with a
\* trailing [0] removed, and under the reported name itself when that does not
\* end in [0].
C3_KeyStripsTrailingElem0 ==
    \A i \in 1..Len(programs) : \A k \in DOMAIN programs[i].uniforms :
        k = StripTrailingElem0(programs[i].uniforms[k].info.name)

\* the documented descriptor of the i-th supported token
DocBaseType(i) ==
    IF i \in 1..7 THEN FLOAT ELSE IF i \in 8..11 THEN INT
    ELSE IF i \in 12..15 THEN BOOL ELSE SAMPLER

DocCategory(i) ==
    IF i \in {1, 8, 12} THEN "SCALAR"
    ELSE IF i \in {2, 3, 4, 9, 10, 11, 13, 14, 15} THEN "VECTOR"
    ELSE IF i \in 5..7 THEN "MATRIX"
    ELSE IF i = 16 THEN "SAMPLER_2D" ELSE "SAMPLER_CUBE"

DocArity(i) ==
    IF i \in {1, 8, 12} THEN 1
    ELSE IF i \in {2, 5, 9, 13} THEN 2
    ELSE IF i \in {3, 6, 10, 14} THEN 3
    ELSE IF i \in {4, 7, 11, 15} THEN 4
    ELSE 0

\* the category a descriptor of the code stands for
Category(d) ==
    IF d.baseVecType = VEC THEN "VECTOR"
    ELSE IF d.baseVecType = MAT THEN "MATRIX"
    ELSE IF d.baseVecType = TWO_D THEN "SAMPLER_2D"
    ELSE IF d.baseVecType = CUB THEN "SAMPLER_CUBE"
    ELSE "NONE"

\* the binding whose type the last uniform() or attribute() call parsed
LastParsedType ==
    IF last.op = "uniform" THEN LastUniform.type ELSE LastAttribute.type

\* C4 as stated: the descriptor parseType computed in the last dispatch is the
\* documented one, with category SCALAR for a token without second segment and
\* no arity for samplers.
C4_DocumentedDescriptor ==
    (UniformHit \/ AttributeHit) =>
        LET i == TypeIndex(LastParsedType)
            d == last.parsed
        IN /\ d.baseType = DocBaseType(i)
           /\ Category(d) = DocCategory(i)
           /\ IF i \in 16..17 THEN d.vecSize.t # "number" ELSE d.vecSize = Num(DocArity(i))

\* C4 amended: as documented, except that a token without second segment is
\* parsed as VEC1, i.e. category VECTOR with arity 1, and the arity of a
\* sampler is NaN.
C4_DescriptorScalarIsVec1 ==
    (UniformHit \/ AttributeHit) =>
        LET i == TypeIndex(LastParsedType)
            d == last.parsed
        IN /\ d.baseType = DocBaseType(i)
           /\ Category(d) = IF i \in {1, 8, 12} THEN "VECTOR" ELSE DocCategory(i)
           /\ i \in {1, 8, 12} => d.vecType = VEC \o <<"1">>
           /\ d.vecSize = IF i \in 16..17 THEN NaN ELSE Num(DocArity(i))

\* a scalar uniform (BOOL) of the all-types program has just been dispatched
C4_Witness ==
    /\ UniformHit
    /\ programs[last.self].source = 2
    /\ LastUniform.type = BOOL
    /\ last.parsed.vecSize = Num(1)

\* the source of the last construction, and what the GL reported for it
LastSource == Shaders[last.shader]
CompileFails(src) == ~src.fOk \/ ~src.vOk
FailedStage(src) == IF ~src.fOk THEN "FRAGMENT" ELSE "VERTEX"
FailedLog(src) == IF ~src.fOk THEN src.fLog ELSE src.vLog

\* what a thrown error says about the stage that failed
ErrorStage(e) == IF "stage" \in DOMAIN e THEN e.stage ELSE "UNKNOWN"

NoProgramObjectTouched ==
    \A k \in 1..Len(calls) :
        calls[k].fn \notin {"createProgram", "attachShader", "linkProgram"}

Supported(value) == \E i \in 1..Len(types) : glTypeValues[i] = value

HasUnsupported(src) ==
    \/ \E j \in 1..Len(src.attributes) : ~Supported(src.attributes[j].type)
    \/ \E j \in 1..Len(src.uniforms) : ~Supported(src.uniforms[j].type)

\* every active variable of src has its binding in the tables of p
TablesComplete(p, src) ==
    /\ \A j \in 1..Len(src.attributes) :
          \E k \in DOMAIN p.attributes : p.attributes[k].info = src.attributes[j]
    /\ \A j \in 1..Len(src.uniforms) :
          \E k \in DOMAIN p.uniforms : p.uniforms[k].info = src.uniforms[j]

\* C6: a construction whose shaders compile and link but report a variable of
\* an unsupported type throws, and every Program that exists was built from
\* supported types only and holds a binding for every active variable.
C6_UnsupportedTypeIsFatal ==
    /\ (last.op = "construct" /\ ~CompileFails(LastSource) /\ LastSource.linkOk
           /\ HasUnsupported(LastSource))
          => (last.threw /\ last.error.name = "Error" /\ last.stage = "reflect")
    /\ \A i \in 1..Len(programs) :
          /\ ~HasUnsupported(Shaders[programs[i].source])
          /\ TablesComplete(programs[i], Shaders[programs[i].source])
          /\ programs[i].glProgram \in 1..handleCount

\* the construction with an unsupported uniform after a sampler has just
\* failed, next to a Program built before it
C6_Witness ==
    /\ last.op = "construct"
    /\ last.shader = 5
    /\ last.threw
    /\ Len(programs) = 1

\* C7: the program objects alive in the GL are exactly the handles of the
\* constructed Programs that have not been destroyed.
C7_AliveAreOwned ==
    glPrograms = {programs[i].glProgram : i \in (1..Len(programs)) \ destroyed}

\* C8: uniform() on a sampler binding issues activeTexture(TEXTURE0 + unit),
\* bindTexture(target of the category, value), uniform1i(location, unit), in
\* this order and nothing else; the integer uploaded is the unit, not the value.
C8_SamplerDispatch ==
    (UniformHit /\ TypeIndex(LastUniform.type) \in 16..17) =>
        LET b == LastUniform
            target == IF TypeIndex(b.type) = 16 THEN "TEXTURE_2D" ELSE "TEXTURE_CUBE_MAP"
        IN /\ ~last.threw
           /\ b.unit.t = "number"
           /\ Len(calls) = 3
           /\ calls[1] = Call("activeTexture", <<Num(TEXTURE0 + b.unit.v)>>)
           /\ calls[2] = Call("bindTexture", <<target, last.value>>)
           /\ calls[3] = Call("uniform1i", <<b.position, b.unit>>)
           /\ calls[3].args[2] # last.value

\* the third sampler (a cube map) of the sampler-mix program has been set
C8_Witness ==
    /\ UniformHit
    /\ LastUniform.type = Tok(SAMPLER, CUBE)
    /\ LastUniform.unit = Num(3)
    /\ last.value = Texture(1)
    /\ Len(calls) = 3

\* the upload method documented for each non-sampler token, in the order of
\* `types`
ExpectedMethod == <<
    "uniform1fv", "uniform2fv", "uniform3fv", "uniform4fv",
    "uniformMatrix2fv", "uniformMatrix3fv", "uniformMatrix4fv",
    "uniform1iv", "uniform2iv", "uniform3iv", "uniform4iv",
    "uniform1iv", "uniform2iv", "uniform3iv", "uniform4iv" >>

\* C9: uniform() on a non-sampler binding returns normally after exactly one
\* call: the documented method with (location, value), or for matrices
\* (location, false, value).
C9_ValueDispatch ==
    (UniformHit /\ TypeIndex(LastUniform.type) \in 1..15) =>
        LET b == LastUniform
            i == TypeIndex(b.type)
        IN /\ ~last.threw
           /\ Len(calls) = 1
           /\ calls[1] = Call(ExpectedMethod[i],
                              IF i \in 5..7 THEN <<b.position, FALSE, last.value>>
                              ELSE <<b.position, last.value>>)

\* a BOOL_VEC3 uniform has been uploaded with the int variant
C9_Witness ==
    /\ UniformHit
    /\ LastUniform.type = Tok(BOOL, VEC \o <<"3">>)
    /\ last.value = Buffer(1)
    /\ Len(calls) = 1
    /\ calls[1].fn = "uniform3iv"

ReflectionCalls ==
    {"createShader", "compileShader", "createProgram", "linkProgram",
     "getActiveAttrib", "getAttribLocation", "getActiveUniform", "getUniformLocation"}

\* C10: a uniform() or attribute() call, hit or miss, leaves every Program
\* (tables, glProgram, textureCount) and the set of program objects as they
\* were, and repeats no step of the construction.
C10_DispatchLeavesProgramsUnchanged ==
    [][last'.op \in {"uniform", "attribute"} =>
          /\ programs' = programs
          /\ glPrograms' = glPrograms
          /\ handleCount' = handleCount
          /\ \A k \in 1..Len(calls') : calls'[k].fn \notin ReflectionCalls]_vars

\* an attribute of a Program that allocated texture units has been bound
C10_Witness ==
    /\ AttributeHit
    /\ programs[last.self].textureCount > 0
    /\ Len(calls) = 3

====
